---- MODULE Spec2Model ----
(***************************************************************************)
(* Model of the subsystems of the "thomas" repository:                      *)
(*                                                                         *)
(*   - the incremental, de-duplicating RSS ingestion of finma.py           *)
(*     (_item_key, _load_existing_keys, write_ndjson), by one caller and   *)
(*     by two callers on one store;                                        *)
(*   - the reader of the store in vdb.py;                                  *)
(*   - the text cleaner, the sentence splitter and the token-budget        *)
(*     windower of full_rag.py (_clean_extracted_text,                     *)
(*     _split_into_sentences, _semantic_chunks_from_sentences);            *)
(*   - chunk_data of full_rag.py, from the documents to the collection.    *)
(*                                                                         *)
(* A Python str is a sequence of one-character strings, so that strip,     *)
(* split, join, len, the JSON reader and the JSON writer are computed the  *)
(* way the code computes them.                                             *)
(***************************************************************************)
EXTENDS Integers, Sequences, FiniteSets, TLC

VARIABLES
    \* finma.py
    feed,          \* the items handed to write_ndjson (parse_rss's result)
    store,         \* the file at out_path: [dir, exists, content]
    runs,          \* history: one record per completed write_ndjson call
    wpc,           \* per call of write_ndjson: "idle" | "filter"
    existing_keys, \* per call: the set existing_keys
    to_append,     \* per call: the list to_append
    pos,           \* per call: position of `for it in items` (1-based, next to read)
    before,        \* history, per call: the file and the keys when the call loaded them
    \* finma.py, _item_key applied to a pair of items
    itemA, itemB,  \* two RssItems
    order,         \* the order in which itemA's fields are stored on a line
    keyA, keyB,    \* their keys, once derived
    keyStored,     \* the key derived from itemA's stored line
    kpc,           \* "start" | "derived"
    \* vdb.py, the reader of the store
    written,       \* history: the items whose records write_ndjson wrote to the file
    contents,      \* the file, split at "\n"
    rpos,          \* position of `for raw in contents` (1-based, next to read)
    records,       \* per line read: its title, pubDate, link, description, sentence
    rpc,           \* "idle" | "read" | "raised" | "done"
    \* full_rag.py, _semantic_chunks_from_sentences
    sentences, target_tokens, max_tokens, overlap_tokens,   \* the arguments
    chunks,        \* List[str]: the result so far
    current,       \* List[str]: the buffer
    current_tok,   \* its running estimate
    parts,         \* history: the buffer's contents at each chunk's emission
    carries,       \* history: the buffer that each flush of flush_current left
    idx,           \* position of the for loop in sentences (1-based, next to read)
    words, wi,     \* the oversized sentence's words and the while loop's i
    pc,            \* "loop" | "split" | "done"
    \* full_rag.py, chunk_data
    env,           \* "ok" | "no_chroma" | "no_input_dir": what the run finds
    items,         \* load_source_data's result: [path, text] per document
    collection,    \* the Chroma collection: a set of [id, document, metadata]
    chunks_jsonl,  \* the rows of data/output/chunks.jsonl
    next_id_int, ids, documents, metadatas,    \* the locals of chunk_data
    dpos,          \* position of `for doc_index, ... in enumerate(items)` (1-based)
    chunk_idx,     \* position of `for chunk_idx, ... in enumerate(chunks)` (0-based)
    doc_log,       \* history: per document read, its sentences and chunks
    pruns,         \* history: the number of runs of chunk_data begun
    ret,           \* the value chunk_data returned
    ppc,           \* "idle" | "start" | "docs" | "chunking" | "done"
    \* full_rag.py, _clean_extracted_text
    extracted,     \* the text a document's extractor returned, as its pieces
    keep_punct,    \* the argument keep_punctuation
    pre_clean,     \* the value _clean_extracted_text returned
    cpc,           \* "idle" | "raw" | "clean"
    \* full_rag.py, _split_into_sentences
    doc_pieces,    \* the text of a document, as its pieces
    doc_sentences, \* the value _split_into_sentences returned
    spc            \* "idle" | "text" | "split"

ingestVars == <<feed, store, runs, wpc, existing_keys, to_append, pos, before>>
keyVars    == <<itemA, itemB, order, keyA, keyB, keyStored, kpc>>
readVars   == <<written, contents, rpos, records, rpc>>
chunkVars  == <<sentences, target_tokens, max_tokens, overlap_tokens, chunks,
                current, current_tok, parts, carries, idx, words, wi, pc>>
pipeVars   == <<env, items, collection, chunks_jsonl, next_id_int, ids, documents,
                metadatas, dpos, chunk_idx, doc_log, pruns, ret, ppc>>
cleanVars  == <<extracted, keep_punct, pre_clean, cpc>>
splitVars  == <<doc_pieces, doc_sentences, spc>>
vars       == <<ingestVars, keyVars, readVars, chunkVars, pipeVars, cleanVars, splitVars>>

-----------------------------------------------------------------------------
(* Python str operations                                                   *)

Max(a, b) == IF a >= b THEN a ELSE b
Min(a, b) == IF a <= b THEN a ELSE b

\* str.isspace() for the characters of the model
IsSpace(c) == c \in {" ", "\n", "\t", "\r"}

RECURSIVE lstrip(_)
lstrip(s) == IF s # <<>> /\ IsSpace(Head(s)) THEN lstrip(Tail(s)) ELSE s

RECURSIVE rstrip(_)
rstrip(s) ==
    IF s # <<>> /\ IsSpace(s[Len(s)]) THEN rstrip(SubSeq(s, 1, Len(s) - 1)) ELSE s

\* str.strip()
strip(s) == rstrip(lstrip(s))

\* sep.join(parts)
RECURSIVE join(_, _)
join(sep, ps) ==
    IF ps = <<>> THEN <<>>
    ELSE IF Len(ps) = 1 THEN ps[1]
    ELSE ps[1] \o sep \o join(sep, Tail(ps))

\* str.split(): the words between runs of whitespace
RECURSIVE split(_)
split(s) ==
    LET t == lstrip(s) IN
    IF t = <<>> THEN <<>>
    ELSE LET ws == {i \in 1..Len(t) : IsSpace(t[i])}
             n  == IF ws = {} THEN Len(t) ELSE (CHOOSE i \in ws : \A j \in ws : i <= j) - 1
         IN  <<SubSeq(t, 1, n)>> \o split(SubSeq(t, n + 1, Len(t)))

\* The least position at which sep occurs in s, 0 when it does not occur
find(s, sep) ==
    LET at == {i \in 1..(Len(s) - Len(sep) + 1) : SubSeq(s, i, i + Len(sep) - 1) = sep}
    IN  IF at = {} THEN 0 ELSE CHOOSE i \in at : \A j \in at : i <= j

\* str.split(sep) with a non-empty separator
RECURSIVE split_on(_, _)
split_on(s, sep) ==
    LET i == find(s, sep) IN
    IF i = 0 THEN <<s>>
    ELSE <<SubSeq(s, 1, i - 1)>> \o split_on(SubSeq(s, i + Len(sep), Len(s)), sep)

\* Length of the first line of c, its "\n" included
RECURSIVE LineLen(_)
LineLen(c) ==
    IF c = <<>> THEN 0
    ELSE IF Head(c) = "\n" THEN 1
    ELSE 1 + LineLen(Tail(c))

\* `for line in f`: the lines of a text file, each with its terminator
RECURSIVE file_lines(_)
file_lines(c) ==
    IF c = <<>> THEN <<>>
    ELSE LET n == LineLen(c) IN
         <<SubSeq(c, 1, n)>> \o file_lines(SubSeq(c, n + 1, Len(c)))

-----------------------------------------------------------------------------
(* Values of an RssItem field and of a parsed JSON member: None, a str, or *)
(* (from a stored JSON line only) a number or a boolean.                   *)

None     == [kind |-> "null", str |-> <<>>]
S(chars) == [kind |-> "str", str |-> chars]
Num(ds)  == [kind |-> "num", str |-> ds]

\* Python truthiness: `not v`
Falsy(v) ==
    \/ v.kind \in {"null", "false"}
    \/ v.kind = "str" /\ v.str = <<>>
    \/ v.kind = "num" /\ v.str = <<"0">>

RssItem(t, l, p, d) == [title |-> t, link |-> l, pubDate |-> p, description |-> d]

-----------------------------------------------------------------------------
(* json.loads and json.dumps, for the documents the model stores: an       *)
(* object whose member values are strings, non-negative integers, true,    *)
(* false or null, or such a scalar alone.  Any other text (arrays, nested  *)
(* objects and signed or fractional numbers included, which no line of the *)
(* model holds) is a JSONDecodeError.                                      *)

Digits == {"0", "1", "2", "3", "4", "5", "6", "7", "8", "9"}

Fail == [ok |-> FALSE, val |-> None, pos |-> 0]

RECURSIVE SkipWs(_, _)
SkipWs(s, i) == IF i <= Len(s) /\ IsSpace(s[i]) THEN SkipWs(s, i + 1) ELSE i

\* The body of a string literal from position i (after the opening quote)
RECURSIVE json_string(_, _, _)
json_string(s, i, acc) ==
    IF i > Len(s) THEN Fail
    ELSE IF s[i] = "\"" THEN [ok |-> TRUE, val |-> S(acc), pos |-> i + 1]
    ELSE IF s[i] = "\\" THEN
        IF i + 1 > Len(s) THEN Fail
        ELSE IF s[i + 1] \in {"\"", "\\", "/"}
             THEN json_string(s, i + 2, Append(acc, s[i + 1]))
        ELSE IF s[i + 1] = "n" THEN json_string(s, i + 2, Append(acc, "\n"))
        ELSE IF s[i + 1] = "t" THEN json_string(s, i + 2, Append(acc, "\t"))
        ELSE Fail
    ELSE IF s[i] \in {"\n", "\t"} THEN Fail      \* strict: no control characters
    ELSE json_string(s, i + 1, Append(acc, s[i]))

RECURSIVE DigitRun(_, _)
DigitRun(s, i) == IF i <= Len(s) /\ s[i] \in Digits THEN 1 + DigitRun(s, i + 1) ELSE 0

HasAt(s, i, lit) == i + Len(lit) - 1 <= Len(s) /\ SubSeq(s, i, i + Len(lit) - 1) = lit

\* A scalar value at position i
json_scalar(s, i) ==
    IF i > Len(s) THEN Fail
    ELSE IF s[i] = "\"" THEN json_string(s, i + 1, <<>>)
    ELSE IF s[i] \in Digits THEN
        LET n == DigitRun(s, i) IN
        IF s[i] = "0" /\ n > 1 THEN [ok |-> TRUE, val |-> Num(<<"0">>), pos |-> i + 1]
        ELSE [ok |-> TRUE, val |-> Num(SubSeq(s, i, i + n - 1)), pos |-> i + n]
    ELSE IF HasAt(s, i, <<"n", "u", "l", "l">>) THEN [ok |-> TRUE, val |-> None, pos |-> i + 4]
    ELSE IF HasAt(s, i, <<"t", "r", "u", "e">>) THEN [ok |-> TRUE, val |-> [kind |-> "true", str |-> <<>>], pos |-> i + 4]
    ELSE IF HasAt(s, i, <<"f", "a", "l", "s", "e">>)
         THEN [ok |-> TRUE, val |-> [kind |-> "false", str |-> <<>>], pos |-> i + 5]
    ELSE Fail

\* The members of an object from position i (at a key), as <<key, value>> pairs
RECURSIVE json_members(_, _, _)
json_members(s, i, acc) ==
    IF i > Len(s) \/ s[i] # "\"" THEN Fail
    ELSE LET k == json_string(s, i + 1, <<>>) IN
    IF ~k.ok THEN Fail
    ELSE LET c == SkipWs(s, k.pos) IN
    IF c > Len(s) \/ s[c] # ":" THEN Fail
    ELSE LET v == json_scalar(s, SkipWs(s, c + 1)) IN
    IF ~v.ok THEN Fail
    ELSE LET e   == SkipWs(s, v.pos)
             got == Append(acc, <<k.val.str, v.val>>) IN
    IF e > Len(s) THEN Fail
    ELSE IF s[e] = "}" THEN [ok |-> TRUE, val |-> got, pos |-> e + 1]
    ELSE IF s[e] = "," THEN json_members(s, SkipWs(s, e + 1), got)
    ELSE Fail

\* json.loads(s): [ok, isobj, members]; ok = FALSE is a JSONDecodeError
json_loads(s) ==
    LET i == SkipWs(s, 1)
        r == IF i <= Len(s) /\ s[i] = "{"
             THEN LET j == SkipWs(s, i + 1) IN
                  IF j <= Len(s) /\ s[j] = "}"
                  THEN [ok |-> TRUE, val |-> <<>>, pos |-> j + 1]
                  ELSE json_members(s, j, <<>>)
             ELSE json_scalar(s, i)
        isobj == i <= Len(s) /\ s[i] = "{"
    IN  IF r.ok /\ SkipWs(s, r.pos) > Len(s)
        THEN [ok |-> TRUE, isobj |-> isobj, members |-> IF isobj THEN r.val ELSE <<>>]
        ELSE [ok |-> FALSE, isobj |-> FALSE, members |-> <<>>]

\* dict.get(name): the last member of that name, None when there is none
RECURSIVE dict_get(_, _)
dict_get(members, name) ==
    IF members = <<>> THEN None
    ELSE LET m == members[Len(members)] IN
         IF m[1] = name THEN m[2]
         ELSE dict_get(SubSeq(members, 1, Len(members) - 1), name)

\* The characters of a string inside a JSON string literal (ensure_ascii=False)
RECURSIVE json_escape(_)
json_escape(s) ==
    IF s = <<>> THEN <<>>
    ELSE (CASE Head(s) = "\"" -> <<"\\", "\"">>
            [] Head(s) = "\\" -> <<"\\", "\\">>
            [] Head(s) = "\n" -> <<"\\", "n">>
            [] Head(s) = "\t" -> <<"\\", "t">>
            [] OTHER -> <<Head(s)>>) \o json_escape(Tail(s))

\* json.dumps of one value
dumps_value(v) ==
    CASE v.kind = "null"  -> <<"n", "u", "l", "l">>
      [] v.kind = "true"  -> <<"t", "r", "u", "e">>
      [] v.kind = "false" -> <<"f", "a", "l", "s", "e">>
      [] v.kind = "num"   -> v.str
      [] OTHER            -> <<"\"">> \o json_escape(v.str) \o <<"\"">>

KeyTitle       == <<"t", "i", "t", "l", "e">>
KeyLink        == <<"l", "i", "n", "k">>
KeyPubDate     == <<"p", "u", "b", "D", "a", "t", "e">>
KeyDescription == <<"d", "e", "s", "c", "r", "i", "p", "t", "i", "o", "n">>

\* json.dumps of the item's fields as an object, members in the order `names`
dumps_object(item, names) ==
    <<"{">>
    \o join(<<",", " ">>,
            [i \in 1..Len(names) |->
                <<"\"">> \o names[i] \o <<"\"", ":", " ">>
                    \o dumps_value(CASE names[i] = KeyTitle   -> item.title
                                     [] names[i] = KeyLink    -> item.link
                                     [] names[i] = KeyPubDate -> item.pubDate
                                     [] OTHER                 -> item.description)])
    \o <<"}">>

\* json.dumps(asdict(item), sort_keys=True, ensure_ascii=False)
dumps_sorted(item) ==
    dumps_object(item, <<KeyDescription, KeyLink, KeyPubDate, KeyTitle>>)

-----------------------------------------------------------------------------
(* finma.py: the identity key, the store reader, the appending writer      *)

RawPrefix  == <<"r", "a", "w", ":", ":">>
JsonPrefix == <<"j", "s", "o", "n", ":", ":">>
Sep        == <<" ", "|", " ">>

\* `v and v.strip()`
and_strip(v) == IF Falsy(v) THEN v ELSE S(strip(v.str))

\* `v and v.strip()` raises AttributeError: v is truthy and has no strip()
strip_raises(v) == ~Falsy(v) /\ v.kind # "str"

\* The str values of the truthy entries of vs: filter(None, vs)
filter_none(vs) ==
    LET kept == SelectSeq(vs, LAMBDA v : ~Falsy(v)) IN
    [i \in 1..Len(kept) |-> kept[i].str]
\* Faulty variant of _item_key: the link is left out of the concatenation
_item_key_without_link(item) ==
    LET concat == join(Sep, filter_none(<<and_strip(item.title), and_strip(item.pubDate)>>))
    IN  IF concat # <<>>
        THEN RawPrefix \o concat
        ELSE JsonPrefix \o dumps_sorted(item)

\* Faulty variant of _item_key: the description is part of the concatenation
_item_key_with_description(item) ==
    LET concat == join(Sep, filter_none(<<and_strip(item.title),
                                          and_strip(item.pubDate),
                                          and_strip(item.link),
                                          and_strip(item.description)>>))
    IN  IF concat # <<>>
        THEN RawPrefix \o concat
        ELSE JsonPrefix \o dumps_sorted(item)

_item_key(item) ==
    LET concat == join(Sep, filter_none(<<and_strip(item.title),
                                          and_strip(item.pubDate),
                                          and_strip(item.link)>>))
    IN  IF concat # <<>>
        THEN RawPrefix \o concat
        ELSE JsonPrefix \o dumps_sorted(item)

\* _item_key(item) raises instead of returning
item_key_raises(item) ==
    strip_raises(item.title) \/ strip_raises(item.pubDate) \/ strip_raises(item.link)
\* Faulty variant of item_of_obj: the fields are taken by position, not by name
item_of_obj_by_position(members) ==
    LET at(i) == IF i <= Len(members) THEN members[i][2] ELSE None IN
    RssItem(at(1), at(2), at(3), at(4))

\* RssItem(title=obj.get("title"), ...) of a parsed object
item_of_obj(members) ==
    RssItem(dict_get(members, KeyTitle), dict_get(members, KeyLink),
            dict_get(members, KeyPubDate), dict_get(members, KeyDescription))
\* Faulty variant of line_key: the fallback key lacks the "raw::" prefix
line_key_unprefixed(line) ==
    LET obj == json_loads(line) IN
    IF obj.ok /\ obj.isobj /\ ~item_key_raises(item_of_obj(obj.members))
    THEN _item_key(item_of_obj(obj.members))
    ELSE line

\* The key _load_existing_keys adds for one stripped, non-blank line
line_key(line) ==
    LET obj == json_loads(line) IN
    IF obj.ok /\ obj.isobj /\ ~item_key_raises(item_of_obj(obj.members))
    THEN _item_key(item_of_obj(obj.members))
    ELSE RawPrefix \o line

\* Faulty variant of _load_existing_keys: a line that is not a JSON object is
\* skipped
_load_existing_keys_skipping(st) ==
    IF ~st.exists THEN {}
    ELSE LET ls == file_lines(st.content) IN
         {line_key(strip(ls[i])) :
             i \in {j \in 1..Len(ls) : /\ strip(ls[j]) # <<>>
                                      /\ json_loads(strip(ls[j])).ok
                                      /\ json_loads(strip(ls[j])).isobj}}

\* The keys of the lines of the store; a blank line has none
_load_existing_keys(st) ==
    IF ~st.exists THEN {}
    ELSE LET ls == file_lines(st.content) IN
         {line_key(strip(ls[i])) : i \in {j \in 1..Len(ls) : strip(ls[j]) # <<>>}}

\* Faulty variant of filter_item: the key of a record marked for append
\* replaces the in-memory set
filter_item_resetting(keys, list, it) ==
    IF _item_key(it) \notin keys
    THEN [keys |-> {_item_key(it)}, to_append |-> Append(list, it)]
    ELSE [keys |-> keys, to_append |-> list]

\* Faulty variant of filter_item: the key of a record marked for append is not
\* added to the in-memory set
filter_item_forgetting(keys, list, it) ==
    IF _item_key(it) \notin keys
    THEN [keys |-> keys, to_append |-> Append(list, it)]
    ELSE [keys |-> keys, to_append |-> list]

\* One iteration of `for it in items`: [keys, to_append] after it
filter_item(keys, list, it) ==
    IF _item_key(it) \notin keys
    THEN [keys |-> keys \cup {_item_key(it)}, to_append |-> Append(list, it)]
    ELSE [keys |-> keys, to_append |-> list]

\* The text written for one item, before its "\n"
record_line(it) == join(Sep, filter_none(<<it.title, it.pubDate, it.link>>))

RECURSIVE written_text(_)
written_text(list) ==
    IF list = <<>> THEN <<>>
    ELSE record_line(Head(list)) \o <<"\n">> \o written_text(Tail(list))
\* Faulty variant of append_to: the file is opened with "w" and truncated
append_to_truncating(st, text) == [dir |-> TRUE, exists |-> TRUE, content |-> text]

\* out_path.open("a") and the writes: the file after them
append_to(st, text) == [dir |-> TRUE, exists |-> TRUE, content |-> st.content \o text]

\* The end of write_ndjson: the value returned and the file afterwards
write_out(st, list) ==
    IF list = <<>>
    THEN [ret |-> 0, store |-> st]
    ELSE [ret |-> Len(list), store |-> append_to(st, written_text(list))]

-----------------------------------------------------------------------------
(* The inputs of the ingestion: items, feeds and pre-existing stores       *)

MaxItems == 2      \* items in one feed
MaxRuns  == 2      \* write_ndjson calls on one store

SeqsUpTo(pool, n) == UNION {[1..k -> pool] : k \in 0..n}

HttpX == <<"h", "t", "t", "p", ":", "/", "/", "x">>

ItemAx    == RssItem(S(<<"A">>), S(HttpX), None, None)
ItemEmpty == RssItem(None, None, None, None)

\* Items of a feed: with and without a description, with an empty link, with
\* all fields, with none, padded, of two lines, blank
FeedPool ==
    {ItemAx,
     RssItem(S(<<"A">>), S(HttpX), None, S(<<"d">>)),
     RssItem(S(<<"A">>), S(<<>>), S(<<"B">>), None),
     RssItem(S(<<"B">>), S(<<"y">>), S(<<"1">>), S(<<"d">>)),
     ItemEmpty,
     RssItem(S(<<"A", " ">>), None, S(<<"1">>), None),
     RssItem(S(<<"A", "\n", "B">>), S(<<"y">>), None, None),
     RssItem(S(<<" ">>), S(<<"y">>), None, S(<<"\"">>))}

\* Items whose keys are compared
KeyPool ==
    FeedPool \cup {RssItem(S(<<"A">>), S(<<"B">>), None, None),
                   RssItem(None, None, None, S(<<"d">>)),
                   RssItem(S(<<"A", " ", "|">>), None, S(<<"B">>), None),
                   RssItem(S(<<"A">>), None, S(<<"|", " ", "B">>), None)}

\* Orders in which a record's fields are stored: the code's, the sorted one,
\* another one
CodeOrder   == <<KeyTitle, KeyLink, KeyPubDate, KeyDescription>>
FieldOrders ==
    {CodeOrder, <<KeyDescription, KeyLink, KeyPubDate, KeyTitle>>,
     <<KeyLink, KeyDescription, KeyTitle, KeyPubDate>>}

NoFile(dir)   == [dir |-> dir, exists |-> FALSE, content |-> <<>>]
FileOf(text)  == [dir |-> TRUE, exists |-> TRUE, content |-> text]

\* Lines of earlier runs and of earlier formats, each ended by "\n"
LegacyJsonAx == dumps_object(ItemAx, CodeOrder) \o <<"\n">>
OddLines     == <<"\n", "{", "\"", "t", "i", "t", "l", "e", "\"", ":", " ", "5", "}", "\n",
                  "1", "2", "\n", "{", "}", "\n">>

-----------------------------------------------------------------------------
(* Values of the variables of a subsystem that is not running              *)

Callers == {1, 2}

NoCall ==
    /\ wpc = [c \in Callers |-> "idle"]
    /\ existing_keys = [c \in Callers |-> {}]
    /\ to_append = [c \in Callers |-> <<>>]
    /\ pos = [c \in Callers |-> 0]
    /\ before = [c \in Callers |-> [store |-> NoFile(FALSE), keys |-> {}]]

IngestIdle == feed = <<>> /\ store = NoFile(FALSE) /\ runs = <<>> /\ NoCall

KeyIdle ==
    /\ itemA = ItemEmpty /\ itemB = ItemEmpty /\ order = CodeOrder
    /\ keyA = <<>> /\ keyB = <<>> /\ keyStored = <<>> /\ kpc = "idle"

ReadIdle ==
    written = <<>> /\ contents = <<>> /\ rpos = 0 /\ records = <<>> /\ rpc = "idle"

ChunkIdle ==
    /\ sentences = <<>> /\ target_tokens = 0 /\ max_tokens = 0 /\ overlap_tokens = 0
    /\ chunks = <<>> /\ current = <<>> /\ current_tok = 0 /\ parts = <<>>
    /\ carries = <<>>
    /\ idx = 0 /\ words = <<>> /\ wi = 0 /\ pc = "idle"

CleanIdle ==
    /\ extracted = <<>> /\ keep_punct = TRUE /\ pre_clean = <<>> /\ cpc = "idle"

SplitIdle == doc_pieces = <<>> /\ doc_sentences = <<>> /\ spc = "idle"

PipeIdle ==
    /\ env = "ok" /\ items = <<>> /\ collection = {} /\ chunks_jsonl = <<>>
    /\ next_id_int = 0 /\ ids = <<>> /\ documents = <<>> /\ metadatas = <<>>
    /\ dpos = 0 /\ chunk_idx = 0 /\ doc_log = <<>> /\ pruns = 0 /\ ret = FALSE
    /\ ppc = "idle"

-----------------------------------------------------------------------------
(* Ingestion: repeated runs of write_ndjson over one feed                  *)

InitIngest ==
    /\ feed \in SeqsUpTo(FeedPool, MaxItems)
    /\ store \in {NoFile(FALSE), NoFile(TRUE), FileOf(<<>>), FileOf(LegacyJsonAx),
                  FileOf(record_line(ItemAx) \o <<"\n">>), FileOf(OddLines)}
    /\ runs = <<>>
    /\ NoCall
    /\ KeyIdle /\ ReadIdle /\ ChunkIdle /\ PipeIdle /\ CleanIdle /\ SplitIdle

\* write_ndjson(feed, out_path) is called: the parent directory is made and the
\* existing keys are loaded
Begin(c) ==
    /\ wpc[c] = "idle"
    /\ Len(runs) + Cardinality({d \in Callers : wpc[d] # "idle"}) < MaxRuns
    /\ store' = [store EXCEPT !.dir = TRUE]
    /\ existing_keys' = [existing_keys EXCEPT ![c] = _load_existing_keys(store)]
    /\ to_append' = [to_append EXCEPT ![c] = <<>>]
    /\ pos' = [pos EXCEPT ![c] = 1]
    /\ before' = [before EXCEPT ![c] = [store |-> store, keys |-> _load_existing_keys(store)]]
    /\ wpc' = [wpc EXCEPT ![c] = "filter"]
    /\ UNCHANGED <<feed, runs, keyVars, readVars, chunkVars, pipeVars, cleanVars, splitVars>>

\* One iteration of `for it in items`
FilterItem(c) ==
    /\ wpc[c] = "filter" /\ pos[c] <= Len(feed)
    /\ \E f \in {filter_item(existing_keys[c], to_append[c], feed[pos[c]])} :
          /\ existing_keys' = [existing_keys EXCEPT ![c] = f.keys]
          /\ to_append' = [to_append EXCEPT ![c] = f.to_append]
    /\ pos' = [pos EXCEPT ![c] = @ + 1]
    /\ UNCHANGED <<feed, store, runs, wpc, before, keyVars, readVars, chunkVars, pipeVars, cleanVars, splitVars>>

\* The loop is over: return 0, or append the records and return their number
Finish(c) ==
    /\ wpc[c] = "filter" /\ pos[c] > Len(feed)
    /\ \E r \in {write_out(store, to_append[c])} :
          /\ store' = r.store
          /\ runs' = Append(runs, [caller |-> c, before |-> before[c].store,
                                   after |-> r.store, ret |-> r.ret,
                                   loaded |-> before[c].keys, keys |-> existing_keys[c],
                                   to_append |-> to_append[c]])
    /\ wpc' = [wpc EXCEPT ![c] = "idle"]
    /\ UNCHANGED <<feed, existing_keys, to_append, pos, before, keyVars, readVars, chunkVars, pipeVars, cleanVars, splitVars>>

\* One caller: the runs follow each other
NextIngest == Begin(1) \/ FilterItem(1) \/ Finish(1)

SpecIngest == InitIngest /\ [][NextIngest]_vars

\* Two callers on one store path: a step of either, in any order (the code
\* takes no lock on the file)
NextRace == \E c \in Callers : Begin(c) \/ FilterItem(c) \/ Finish(c)

SpecRace == InitIngest /\ [][NextRace]_vars

-----------------------------------------------------------------------------
(* Identity keys of two items, and of an item read back from a stored line *)

InitKey ==
    /\ itemA \in KeyPool /\ itemB \in KeyPool /\ order \in FieldOrders
    /\ keyA = <<>> /\ keyB = <<>> /\ keyStored = <<>> /\ kpc = "start"
    /\ IngestIdle /\ ReadIdle /\ ChunkIdle /\ PipeIdle /\ CleanIdle /\ SplitIdle

\* _item_key(itemA), _item_key(itemB), and the key _load_existing_keys derives
\* from itemA stored as a JSON line with its fields in `order`
DeriveKeys ==
    /\ kpc = "start"
    /\ keyA' = _item_key(itemA)
    /\ keyB' = _item_key(itemB)
    /\ keyStored' = line_key(strip(dumps_object(itemA, order) \o <<"\n">>))
    /\ kpc' = "derived"
    /\ UNCHANGED <<itemA, itemB, order, ingestVars, readVars, chunkVars, pipeVars, cleanVars, splitVars>>

SpecKey == InitKey /\ [][DeriveKeys]_vars

-----------------------------------------------------------------------------
(* vdb.py: the reader of the store written by write_ndjson                 *)

\* `obj.get(name, "") or ""`
get_or_empty(members, name) ==
    IF Falsy(dict_get(members, name)) THEN S(<<>>) ELSE dict_get(members, name)

\* parts[i] if len(parts) > i else "" (i is 0-based)
part_or_empty(ps, i) == IF Len(ps) > i THEN S(strip(ps[i + 1])) ELSE S(<<>>)

\* " ".join(filter(None, (title, link, pubDate, description))) raises TypeError:
\* a value that is kept is not a str
join_raises(vs) == \E i \in 1..Len(vs) : ~Falsy(vs[i]) /\ vs[i].kind # "str"

Record(raised, t, p, l, d) ==
    [raised |-> raised, title |-> t, pubDate |-> p, link |-> l, description |-> d,
     sentence |-> IF raised \/ join_raises(<<t, l, p, d>>) THEN <<>>
                  ELSE join(<<" ">>, filter_none(<<t, l, p, d>>))]

\* One stripped, non-blank line of the store.  The try branch: the line is
\* JSON; a value that is not an object has no .get (AttributeError), which the
\* except clause does not catch.  The except branch (json.JSONDecodeError):
\* the line is read as `title | pubDate | link`
read_line(line) ==
    LET obj == json_loads(line)
        ps  == split_on(line, Sep)
        t   == get_or_empty(obj.members, KeyTitle)
        l   == get_or_empty(obj.members, KeyLink)
        p   == get_or_empty(obj.members, KeyPubDate)
        d   == get_or_empty(obj.members, KeyDescription)
    IN  IF ~obj.ok
        THEN Record(FALSE, part_or_empty(ps, 0), part_or_empty(ps, 1), part_or_empty(ps, 2),
                    S(<<>>))
        ELSE IF ~obj.isobj THEN Record(TRUE, S(<<>>), S(<<>>), S(<<>>), S(<<>>))
        ELSE Record(join_raises(<<t, l, p, d>>), t, p, l, d)

\* The file vdb.py reads: lines of earlier formats followed by the lines
\* write_ndjson wrote for the items of `written`, a list of items of pairwise
\* different keys (what one run of write_ndjson appends to a store)
InitRead ==
    /\ written \in {l \in SeqsUpTo(KeyPool, MaxItems) :
                       \A i, j \in 1..Len(l) : i # j => _item_key(l[i]) # _item_key(l[j])}
    /\ \E old \in {<<>>, LegacyJsonAx, OddLines} :
          contents = split_on(old \o written_text(written), <<"\n">>)
    /\ rpos = 1 /\ records = <<>> /\ rpc = "read"
    /\ IngestIdle /\ KeyIdle /\ ChunkIdle /\ PipeIdle /\ CleanIdle /\ SplitIdle

\* One iteration of `for raw in contents`
ReadLine ==
    /\ rpc = "read" /\ rpos <= Len(contents)
    /\ \E line \in {strip(contents[rpos])} :
          IF line = <<>>
          THEN UNCHANGED <<records, rpc>>
          ELSE \E r \in {read_line(line)} :
                  /\ records' = Append(records, r)
                  /\ rpc' = IF r.raised THEN "raised" ELSE "read"
    /\ rpos' = rpos + 1
    /\ UNCHANGED <<written, contents, ingestVars, keyVars, chunkVars, pipeVars, cleanVars, splitVars>>

\* The loop is over: the sentences go to add_sentences_to_chromadb
EndRead ==
    /\ rpc = "read" /\ rpos > Len(contents)
    /\ rpc' = "done"
    /\ UNCHANGED <<written, contents, rpos, records, ingestVars, keyVars, chunkVars, pipeVars, cleanVars, splitVars>>

NextRead == ReadLine \/ EndRead

SpecRead == InitRead /\ [][NextRead]_vars

-----------------------------------------------------------------------------
(* full_rag.py: _split_into_sentences                                      *)

Upper == {"A", "B", "C", "D", "E", "F", "G", "H", "I", "J", "K", "L", "M",
          "N", "O", "P", "Q", "R", "S", "T", "U", "V", "W", "X", "Y", "Z"}
Lower == {"a", "b", "c", "d", "e", "f", "g", "h", "i", "j", "k", "l", "m",
          "n", "o", "p", "q", "r", "s", "t", "u", "v", "w", "x", "y", "z"}

\* \w of a regular expression
IsWordChar(c) == c \in Upper \cup Lower \cup Digits \cup {"_"}

\* The least element of a non-empty set of integers
Least(set) == CHOOSE i \in set : \A j \in set : i <= j

\* The vocabulary of section headers, in the order the code applies it
section_words ==
    <<<<"A", "B", "S", "T", "R", "A", "C", "T">>,
      <<"A", "b", "s", "t", "r", "a", "c", "t">>,
      <<"I", "N", "T", "R", "O", "D", "U", "C", "T", "I", "O", "N">>,
      <<"I", "n", "t", "r", "o", "d", "u", "c", "t", "i", "o", "n">>,
      <<"B", "A", "C", "K", "G", "R", "O", "U", "N", "D">>,
      <<"B", "a", "c", "k", "g", "r", "o", "u", "n", "d">>,
      <<"M", "E", "T", "H", "O", "D", "S">>,
      <<"M", "e", "t", "h", "o", "d", "s">>,
      <<"M", "A", "T", "E", "R", "I", "A", "L", "S">>,
      <<"M", "a", "t", "e", "r", "i", "a", "l", "s">>,
      <<"R", "E", "S", "U", "L", "T", "S">>,
      <<"R", "e", "s", "u", "l", "t", "s">>,
      <<"D", "I", "S", "C", "U", "S", "S", "I", "O", "N">>,
      <<"D", "i", "s", "c", "u", "s", "s", "i", "o", "n">>,
      <<"C", "O", "N", "C", "L", "U", "S", "I", "O", "N">>,
      <<"C", "o", "n", "c", "l", "u", "s", "i", "o", "n", "s">>,
      <<"C", "o", "n", "c", "l", "u", "s", "i", "o", "n">>,
      <<"A", "C", "K", "N", "O", "W", "L", "E", "D", "G", "E", "M", "E", "N", "T", "S">>,
      <<"A", "c", "k", "n", "o", "w", "l", "e", "d", "g", "e", "m", "e", "n", "t", "s">>,
      <<"R", "E", "F", "E", "R", "E", "N", "C", "E", "S">>,
      <<"R", "e", "f", "e", "r", "e", "n", "c", "e", "s">>>>

\* The positions of text at which \bw\b matches
header_at(text, w) ==
    {i \in 1..(Len(text) - Len(w) + 1) :
        /\ text[i] = w[1]
        /\ SubSeq(text, i, i + Len(w) - 1) = w
        /\ i = 1 \/ ~IsWordChar(text[i - 1])
        /\ i + Len(w) > Len(text) \/ ~IsWordChar(text[i + Len(w)])}

\* The end of the longest run of whitespace of text that begins at i (i - 1
\* when there is none): \s*
skip_space(text, i) ==
    LET stop == {j \in i..Len(text) : ~IsSpace(text[j])} IN
    IF stop = {} THEN Len(text) ELSE Least(stop) - 1

\* re.sub(rf"\b{w}\b\s*:?\s*", f"{w}. ", text): e is the last position of the
\* match of \s*:?\s* after the word
RECURSIVE sub_header(_, _)
sub_header(text, w) ==
    IF header_at(text, w) = {} THEN text
    ELSE LET i == Least(header_at(text, w))
             a == skip_space(text, i + Len(w))
             e == IF a < Len(text) /\ text[a + 1] = ":" THEN skip_space(text, a + 2) ELSE a
         IN  SubSeq(text, 1, i - 1) \o w \o <<".", " ">>
                \o sub_header(SubSeq(text, e + 1, Len(text)), w)

\* The loop `for w in section_words`, from the k-th word on
RECURSIVE hint_headers(_, _)
hint_headers(text, k) ==
    IF k > Len(section_words) THEN text
    ELSE hint_headers(sub_header(text, section_words[k]), k + 1)

\* re.sub(r"\s+", " ", text)
collapse_space(text) ==
    LET first == SelectSeq([i \in 1..Len(text) |-> i],
                           LAMBDA i : ~IsSpace(text[i]) \/ i = 1 \/ ~IsSpace(text[i - 1]))
    IN  [k \in 1..Len(first) |-> IF IsSpace(text[first[k]]) THEN " " ELSE text[first[k]]]

\* The positions at which (?<=[.!?])\s+(?=[A-Z0-9\(]) matches in a text whose
\* runs of whitespace are single spaces
boundaries(text) ==
    {i \in 2..(Len(text) - 1) :
        /\ text[i] = " "
        /\ text[i - 1] \in {".", "!", "?"}
        /\ text[i + 1] \in Upper \cup Digits \cup {"("}}

\* re.split at the positions of cuts that are at `from` or after it
RECURSIVE split_at(_, _, _)
split_at(text, cuts, from) ==
    LET later == {i \in cuts : i >= from} IN
    IF later = {} THEN <<SubSeq(text, from, Len(text))>>
    ELSE <<SubSeq(text, from, Least(later) - 1)>> \o split_at(text, cuts, Least(later) + 1)

\* Faulty variant of _split_into_sentences: the parts that are empty are kept
_split_into_sentences_unfiltered(text) ==
    LET t == strip(collapse_space(hint_headers(text, 1)))
        ps == split_at(t, boundaries(t), 1)
    IN  [k \in 1..Len(ps) |-> strip(ps[k])]

\* The sentences of a text: the headers hinted, the whitespace normalized, the
\* text split at the sentence ends, the parts trimmed and the empty ones dropped
_split_into_sentences(text) ==
    LET t == strip(collapse_space(hint_headers(text, 1)))
        ps == split_at(t, boundaries(t), 1)
    IN  SelectSeq([k \in 1..Len(ps) |-> strip(ps[k])], LAMBDA q : q # <<>>)

-----------------------------------------------------------------------------
(* full_rag.py: _clean_extracted_text                                      *)

\* str.replace(old, new)
RECURSIVE replace(_, _, _)
replace(text, old, new) ==
    LET i == find(text, old) IN
    IF i = 0 THEN text
    ELSE SubSeq(text, 1, i - 1) \o new \o replace(SubSeq(text, i + Len(old), Len(text)), old, new)

\* The characters U+00AD, U+200B, U+200C and U+200D, each one character of a text
ZeroWidth == {"U+00AD", "U+200B", "U+200C", "U+200D"}

\* The characters of text at the positions that are not in gone
without(text, gone) ==
    LET kept == SelectSeq([i \in 1..Len(text) |-> i], LAMBDA i : i \notin gone) IN
    [k \in 1..Len(kept) |-> text[kept[k]]]

\* Faulty variant of dehyphenate: only a hyphen with the line break right after
\* it is repaired, and the whitespace after the break stays
dehyphenate_adjacent(text) == replace(text, <<"-", "\n">>, <<>>)

\* re.sub(r"-\s*\n\s*", "", t).  The pattern matches at a hyphen when the
\* whitespace after it holds a line break; the hyphen and all that whitespace go
dehyphenate(text) ==
    LET at == {h \in 1..Len(text) :
                 /\ text[h] = "-"
                 /\ \E j \in (h + 1)..skip_space(text, h + 1) : text[j] = "\n"}
    IN  without(text, {i \in 1..Len(text) :
                          \E h \in at : h <= i /\ i <= skip_space(text, h + 1)})

\* An element of a pattern: a class of characters (negated or not) that is to
\* match at least `min` times, and at most once unless `many`
El(class, neg, min, many) == [in |-> class, neg |-> neg, min |-> min, many |-> many]

\* \s and [ \t<>)]
White   == {" ", "\n", "\t", "\r"}
UrlStop == {" ", "\t", "<", ">", ")"}

\* The last position of the match of pat[k], pat[k + 1], ... that begins at i,
\* or -1 when there is none; e is the end of the longest run of pat[k] (i - 1
\* when it is empty).  No element of the patterns below can match a character
\* that the element after it could, so the longest run is the match.
RECURSIVE match_end(_, _, _, _)
match_end(text, i, pat, k) ==
    IF k > Len(pat) THEN i - 1
    ELSE LET stop == {j \in i..Len(text) : (text[j] \in pat[k].in) = pat[k].neg}
             all  == IF stop = {} THEN Len(text) ELSE Least(stop) - 1
             e    == IF pat[k].many THEN all ELSE Min(all, i)
         IN  IF e - i + 1 < pat[k].min THEN -1 ELSE match_end(text, e + 1, pat, k + 1)

\* re.sub(pat, repl, text) for a pattern that matches no empty string: repl is
\* a text, or "collapse" for _collapse_spaces (the match without its whitespace)
RECURSIVE re_sub(_, _, _)
re_sub(text, pat, repl) ==
    LET at == {i \in 1..Len(text) : match_end(text, i, pat, 1) >= i} IN
    IF at = {} THEN text
    ELSE LET i == Least(at)
             e == match_end(text, i, pat, 1)
         IN  SubSeq(text, 1, i - 1)
                \o (IF repl = "collapse"
                    THEN SelectSeq(SubSeq(text, i, e), LAMBDA c : c \notin White)
                    ELSE repl)
                \o re_sub(SubSeq(text, e + 1, Len(text)), pat, repl)

\* The patterns whose matches lose their whitespace, in the code's order
UrlPatterns ==
    LET One(class)  == El(class, FALSE, 1, FALSE)
        Opt(class)  == El(class, FALSE, 0, FALSE)
        Ws          == El(White, FALSE, 0, TRUE)
        Rest(min)   == El(UrlStop, TRUE, min, TRUE)
        AlNum       == Upper \cup Lower \cup Digits
    IN  <<\* h\s*t\s*t\s*p\s*s?\s*:\s*/\s*/[^ \t<>)]+ with re.IGNORECASE
          <<One({"h", "H"}), Ws, One({"t", "T"}), Ws, One({"t", "T"}), Ws, One({"p", "P"}), Ws,
            Opt({"s", "S"}), Ws, One({":"}), Ws, One({"/"}), Ws, One({"/"}), Rest(1)>>,
          \* d\s*o\s*i\s*[:.]?\s*10\.[^ \t<>)]+ with re.IGNORECASE
          <<One({"d", "D"}), Ws, One({"o", "O"}), Ws, One({"i", "I"}), Ws, Opt({":", "."}), Ws,
            One({"1"}), One({"0"}), One({"."}), Rest(1)>>,
          \* 10\.\d{4,}/[^ \t<>)]+
          <<One({"1"}), One({"0"}), One({"."}), El(Digits, FALSE, 4, TRUE), One({"/"}),
            Rest(1)>>,
          \* [A-Za-z0-9-]+\s*\.\s*[A-Za-z0-9.-]+\s*/[^ \t<>)]*
          <<El(AlNum \cup {"-"}, FALSE, 1, TRUE), Ws, One({"."}), Ws,
            El(AlNum \cup {".", "-"}, FALSE, 1, TRUE), Ws, One({"/"}), Rest(0)>>>>

\* The branch `if not keep_punctuation`: [^\w\s] becomes a space, \s+ becomes
\* one space, and each run of whitespace that holds a line break, (\s*\n\s*)+,
\* becomes one line break
drop_punctuation(t) ==
    LET a  == re_sub(t, <<El(White \cup Upper \cup Lower \cup Digits \cup {"_"}, TRUE, 1, FALSE)>>,
                     <<" ">>)
        b  == re_sub(a, <<El(White, FALSE, 1, TRUE)>>, <<" ">>)
        at == {i \in 1..Len(b) :
                  /\ b[i] \in White
                  /\ \E j \in 1..Len(b) :
                        b[j] = "\n" /\ \A m \in Min(i, j)..Max(i, j) : b[m] \in White}
    IN  strip(without([i \in 1..Len(b) |-> IF i \in at THEN "\n" ELSE b[i]],
                      {i \in at : i - 1 \in at}))

\* The text after the steps that both branches share
unwrap_text(text) ==
    LET a == replace(replace(text, <<"\r", "\n">>, <<"\n">>), <<"\r">>, <<"\n">>)
        b == dehyphenate(SelectSeq(a, LAMBDA c : c \notin ZeroWidth))
        \* "\n\n" becomes "<P>", then [ \t]*\n[ \t]* becomes a space
        c == re_sub(replace(b, <<"\n", "\n">>, <<"<", "P", ">">>),
                    <<El({" ", "\t"}, FALSE, 0, TRUE), El({"\n"}, FALSE, 1, FALSE),
                      El({" ", "\t"}, FALSE, 0, TRUE)>>, <<" ">>)
        d == re_sub(re_sub(re_sub(re_sub(c, UrlPatterns[1], "collapse"),
                                  UrlPatterns[2], "collapse"),
                           UrlPatterns[3], "collapse"),
                    UrlPatterns[4], "collapse")
    IN  replace(strip(re_sub(d, <<El({" ", "\t"}, FALSE, 1, TRUE)>>, <<" ">>)),
                <<"<", "P", ">">>, <<" ">>)

_clean_extracted_text(text, keep_punctuation) ==
    IF keep_punctuation THEN unwrap_text(text) ELSE drop_punctuation(unwrap_text(text))

-----------------------------------------------------------------------------
(* full_rag.py: the token-budget windower                                  *)

_estimate_tokens(text) == Max(1, (Len(text) + 3) \div 4)

\* sum(_estimate_tokens(s) + 1 for s in list)
RECURSIVE padded_sum(_)
padded_sum(list) ==
    IF list = <<>> THEN 0 ELSE _estimate_tokens(Head(list)) + 1 + padded_sum(Tail(list))

\* list(reversed(list))
RECURSIVE reversed_list(_)
reversed_list(list) ==
    IF list = <<>> THEN <<>> ELSE Append(reversed_list(Tail(list)), Head(list))
\* Faulty variant of overlap_window: a sentence is carried only while it fits the budget
RECURSIVE overlap_window_fitting(_, _, _, _)
overlap_window_fitting(cur, k, tok, overlap) ==
    IF k = 0 THEN overlap
    ELSE LET tok2 == tok + _estimate_tokens(cur[k]) + 1 IN
         IF tok2 > overlap_tokens THEN overlap
         ELSE overlap_window_fitting(cur, k - 1, tok2, Append(overlap, cur[k]))

\* The loop of flush_current over reversed(cur), from cur[k] down: `overlap`
RECURSIVE overlap_window(_, _, _, _)
overlap_window(cur, k, tok, overlap) ==
    IF k = 0 THEN overlap
    ELSE LET tok2 == tok + _estimate_tokens(cur[k]) + 1
             ov2  == Append(overlap, cur[k])
         IN  IF tok2 >= overlap_tokens THEN ov2 ELSE overlap_window(cur, k - 1, tok2, ov2)

\* " ".join(current).strip()
chunk_text(cur) == strip(join(<<" ">>, cur))

\* The windower's mutable state, as the closure flush_current shares it
WinState == [chunks |-> chunks, current |-> current, current_tok |-> current_tok,
             parts |-> parts, carries |-> carries]

flush_current(st) ==
    IF st.current = <<>> THEN st
    ELSE LET carried == reversed_list(overlap_window(st.current, Len(st.current), 0, <<>>))
         IN  [chunks      |-> Append(st.chunks, chunk_text(st.current)),
              parts       |-> Append(st.parts, st.current),
              carries     |-> Append(st.carries, carried),
              current     |-> carried,
              current_tok |-> padded_sum(carried)]

\* Faulty variant of append_piece: the joining space is not counted
append_piece_unpadded(st, s) ==
    [st EXCEPT !.current = Append(@, s), !.current_tok = @ + _estimate_tokens(s)]

\* current.append(s); current_tok += _estimate_tokens(s) + 1
append_piece(st, s) ==
    [st EXCEPT !.current = Append(@, s), !.current_tok = @ + _estimate_tokens(s) + 1]

\* if current_tok >= target_tokens: flush_current()
flush_at_target(st) == IF st.current_tok >= target_tokens THEN flush_current(st) ELSE st

\* The guarded loop of the else branch: pieces of max(1, max_tokens - overlap_tokens) words
RECURSIVE guard_pieces(_, _, _)
guard_pieces(st, ws, i) ==
    LET n == Max(1, max_tokens - overlap_tokens) IN
    IF i >= Len(ws) THEN st
    ELSE guard_pieces(
            flush_at_target(append_piece(st, join(<<" ">>, SubSeq(ws, i + 1, Min(i + n, Len(ws)))))),
            ws, i + n)
\* Faulty variant of take_sentence: after the flush the sentence is not appended
take_sentence_dropping(st, s) ==
    LET s_tok == _estimate_tokens(s) IN
    IF st.current_tok + s_tok <= max_tokens
    THEN flush_at_target(append_piece(st, s))
    ELSE flush_current(st)

\* One iteration of `for s in sentences` for a sentence below max_tokens
take_sentence(st, s) ==
    LET s_tok == _estimate_tokens(s) IN
    IF st.current_tok + s_tok <= max_tokens
    THEN flush_at_target(append_piece(st, s))
    ELSE LET f == flush_current(st) IN
         IF _estimate_tokens(s) > max_tokens
         THEN guard_pieces(f, split(s), 0)
         ELSE flush_at_target(append_piece(f, s))

approx_words_per_chunk ==
    LET a == (max_tokens * 4) \div 5 IN IF a <= 0 THEN Len(words) ELSE a

\* Faulty variant of step: the advance is not kept at 1 or more
step_unclamped == approx_words_per_chunk - Max(5, overlap_tokens)

\* step = max(1, approx_words_per_chunk - max(5, overlap_tokens))
step == Max(1, approx_words_per_chunk - Max(5, overlap_tokens))

\* One iteration of `while i < len(words)` for the piece at words[i:i + approx]
take_piece(st) ==
    LET piece == join(<<" ">>, SubSeq(words, wi + 1, Min(wi + approx_words_per_chunk, Len(words))))
        f     == IF st.current_tok + _estimate_tokens(piece) > max_tokens
                 THEN flush_current(st) ELSE st
    IN  flush_at_target(append_piece(f, piece))

\* The flush of the remainder, which seeds no further overlap
flush_remainder(st) ==
    IF st.current # <<>>
    THEN [st EXCEPT !.chunks = Append(@, chunk_text(st.current)),
                    !.parts = Append(@, st.current)]
    ELSE st

-----------------------------------------------------------------------------
(* The inputs of the windower                                              *)

MaxSents == 3      \* sentences in one document

Intro  == <<"I", "n", "t", "r", "o", ".">>
Second == <<"S", "e", "c", "o", "n", "d", " ", "s", "e", "n", "t", "e", "n", "c", "e", " ",
            "h", "e", "r", "e", ".">>
Third  == <<"T", "h", "i", "r", "d", ".">>
\* The sentences of a document: three short ones and one of seventeen words
SentencePool ==
    {Intro, Second, Third,
     <<"A", " ", "b", " ", "c", " ", "d", " ", "e", " ", "f", " ", "g", " ", "h", " ",
       "i", " ", "j", " ", "k", " ", "l", " ", "m", " ", "n", " ", "o", " ", "p", " ",
       "q", ".">>}

\* <<target_tokens, max_tokens, overlap_tokens>>: the scenario of the documentation,
\* the pipeline's defaults, budgets of the size of the model's sentences, and
\* budgets that are zero or negative, which the signature (three ints) admits
Configs ==
    {<<1, 100, 0>>, <<350, 500, 50>>, <<4, 5, 2>>, <<8, 5, 1>>, <<6, 9, 4>>, <<3, 3, 0>>,
     <<12, 9, 6>>,
     <<0, 0, 0>>, <<-1, -2, -3>>, <<0, 3, -2>>, <<-3, 9, 0>>, <<5, 0, 7>>, <<2, 1, 0>>}

-----------------------------------------------------------------------------
(* The windower, one step per sentence or per piece of an oversized one    *)

InitChunk ==
    /\ sentences \in SeqsUpTo(SentencePool, MaxSents)
    /\ \E c \in Configs :
          target_tokens = c[1] /\ max_tokens = c[2] /\ overlap_tokens = c[3]
    /\ chunks = <<>> /\ current = <<>> /\ current_tok = 0 /\ parts = <<>>
    /\ carries = <<>>
    /\ idx = 1 /\ words = <<>> /\ wi = 0 /\ pc = "loop"
    /\ IngestIdle /\ KeyIdle /\ ReadIdle /\ PipeIdle /\ CleanIdle /\ SplitIdle

SetWin(st) ==
    /\ chunks' = st.chunks
    /\ current' = st.current
    /\ current_tok' = st.current_tok
    /\ parts' = st.parts
    /\ carries' = st.carries

Args == <<sentences, target_tokens, max_tokens, overlap_tokens>>

\* A sentence below max_tokens
StepSentence ==
    /\ pc = "loop" /\ idx <= Len(sentences)
    /\ _estimate_tokens(sentences[idx]) < max_tokens
    /\ SetWin(take_sentence(WinState, sentences[idx]))
    /\ idx' = idx + 1
    /\ UNCHANGED <<Args, words, wi, pc, ingestVars, keyVars, readVars, pipeVars, cleanVars, splitVars>>

\* A sentence of max_tokens or more: split it by words
BeginSplit ==
    /\ pc = "loop" /\ idx <= Len(sentences)
    /\ _estimate_tokens(sentences[idx]) >= max_tokens
    /\ words' = split(sentences[idx])
    /\ wi' = 0
    /\ pc' = "split"
    /\ UNCHANGED <<Args, chunks, current, current_tok, parts, carries,
                   idx, ingestVars, keyVars, readVars, pipeVars, cleanVars, splitVars>>

SplitPiece ==
    /\ pc = "split" /\ wi < Len(words)
    /\ SetWin(take_piece(WinState))
    /\ wi' = wi + step
    /\ UNCHANGED <<Args, idx, words, pc, ingestVars, keyVars, readVars, pipeVars, cleanVars, splitVars>>

\* `continue`: the while loop is over
EndSplit ==
    /\ pc = "split" /\ wi >= Len(words)
    /\ idx' = idx + 1
    /\ words' = <<>> /\ wi' = 0
    /\ pc' = "loop"
    /\ UNCHANGED <<Args, chunks, current, current_tok, parts, carries,
                   ingestVars, keyVars, readVars, pipeVars, cleanVars, splitVars>>

\* The end of the for loop (or no sentences at all): flush the remainder, return chunks
Return ==
    /\ pc = "loop" /\ idx > Len(sentences)
    /\ SetWin(flush_remainder(WinState))
    /\ pc' = "done"
    /\ UNCHANGED <<Args, idx, words, wi, ingestVars, keyVars, readVars, pipeVars, cleanVars, splitVars>>

NextChunk == StepSentence \/ BeginSplit \/ SplitPiece \/ EndSplit \/ Return

SpecChunk == InitChunk /\ [][NextChunk]_vars

-----------------------------------------------------------------------------
(* full_rag.py: chunk_data, the pipeline from the documents to the store   *)

TARGET_TOKENS  == 350
MAX_TOKENS     == 500
OVERLAP_TOKENS == 50

\* str(n) for n >= 0
RECURSIVE str_int(_)
str_int(n) ==
    LET digit == <<"0", "1", "2", "3", "4", "5", "6", "7", "8", "9">>[(n % 10) + 1] IN
    IF n < 10 THEN <<digit>> ELSE Append(str_int(n \div 10), digit)

\* Path(path_str).name
path_name(path_str) ==
    LET slashes == {i \in 1..Len(path_str) : path_str[i] = "/"} IN
    IF slashes = {} THEN path_str
    ELSE SubSeq(path_str, (CHOOSE i \in slashes : \A j \in slashes : j <= i) + 1,
                Len(path_str))

\* collection.upsert(ids=..., documents=..., metadatas=...): a record replaces
\* the record of its id (the batches of 256 make no difference to the result)
collection_upsert(coll, is, docs, metas) ==
    {r \in coll : \A k \in 1..Len(is) : r.id # is[k]}
        \cup {[id |-> is[k], document |-> docs[k], metadata |-> metas[k]] : k \in 1..Len(is)}

\* collection.add of the sentinel: an id that the collection holds is not added
\* a second time
collection_add_sentinel(coll) ==
    IF \E r \in coll : r.id = <<"_", "_", "i", "n", "i", "t", "_", "_">> THEN coll
    ELSE coll \cup {[id |-> <<"_", "_", "i", "n", "i", "t", "_", "_">>,
                     document |-> <<"s", "e", "n", "t", "i", "n", "e", "l">>,
                     metadata |-> [source |-> <<>>, chunk_index |-> 0, doc_index |-> 0,
                                   tokens |-> 0, filename |-> <<>>]]}

\* Faulty variant of chunk_metadata: chunk_index counts from 1
chunk_metadata_from_one(path_str, d, k, text) ==
    [source |-> path_str, chunk_index |-> k + 1, doc_index |-> d,
     tokens |-> _estimate_tokens(text), filename |-> path_name(path_str)]

\* The metadata of the chunk at position k (0-based) of the document at
\* position d (0-based)
chunk_metadata(path_str, d, k, text) ==
    [source |-> path_str, chunk_index |-> k, doc_index |-> d,
     tokens |-> _estimate_tokens(text), filename |-> path_name(path_str)]

-----------------------------------------------------------------------------
(* The inputs of the pipeline                                              *)

MaxDocs     == 2      \* documents in the input directory
MaxPipeRuns == 2      \* runs of chunk_data

\* s repeated n times
RECURSIVE Rep(_, _)
Rep(s, n) ==
    IF n = 0 THEN <<>>
    ELSE LET h == Rep(s, n \div 2) IN h \o h \o (IF n % 2 = 1 THEN s ELSE <<>>)

\* Texts as _clean_extracted_text leaves them: none, one space (a page of
\* blank lines), three short sentences, and a text with a sentence above
\* MAX_TOKENS followed by two sentences that fill more than one chunk
NoText    == <<>>
BlankText == <<" ">>
LongText  ==
    <<"A">> \o Rep(<<"a">>, 700) \o <<" ">> \o Rep(<<"b">>, 700) \o <<" ">>
        \o Rep(<<"c">>, 700) \o <<".", " ">>
        \o <<"B">> \o Rep(<<"a">>, 798) \o <<".", " ">>
        \o <<"C">> \o Rep(<<"b">>, 798) \o <<".">>

DocPool == {NoText, BlankText, Intro \o <<" ">> \o Second \o <<" ">> \o Third, LongText}

\* The path of the k-th file of the input directory
PathOf(k) == <<"i", "n", "/">> \o str_int(k) \o <<".", "p", "d", "f">>

-----------------------------------------------------------------------------
(* chunk_data, one step per document, per windower step and per chunk      *)

InitPipe ==
    /\ env \in {"ok", "no_chroma", "no_input_dir"}
    /\ \E texts \in SeqsUpTo(DocPool, MaxDocs) :
          items = [k \in 1..Len(texts) |-> [path |-> PathOf(k), text |-> texts[k]]]
    /\ collection = {} /\ chunks_jsonl = <<>>
    /\ next_id_int = 0 /\ ids = <<>> /\ documents = <<>> /\ metadatas = <<>>
    /\ dpos = 0 /\ chunk_idx = 0 /\ doc_log = <<>> /\ pruns = 0 /\ ret = FALSE
    /\ ppc = "start"
    /\ IngestIdle /\ KeyIdle /\ ReadIdle /\ ChunkIdle /\ CleanIdle /\ SplitIdle

\* chunk_data() is called and Chroma or the input directory is not there
FailEarly ==
    /\ ppc \in {"start", "done"} /\ pruns < MaxPipeRuns
    /\ env # "ok"
    /\ pruns' = pruns + 1
    /\ ret' = FALSE
    /\ ppc' = "done"
    /\ UNCHANGED <<env, items, collection, chunks_jsonl, next_id_int, ids, documents,
                   metadatas, dpos, chunk_idx, doc_log,
                   ingestVars, keyVars, readVars, chunkVars, cleanVars, splitVars>>

\* chunk_data() is called: the documents are loaded and the ids start at the
\* size of the collection
BeginRun ==
    /\ ppc \in {"start", "done"} /\ pruns < MaxPipeRuns
    /\ env = "ok"
    /\ pruns' = pruns + 1
    /\ next_id_int' = Cardinality(collection)
    /\ ids' = <<>> /\ documents' = <<>> /\ metadatas' = <<>>
    /\ dpos' = 1 /\ chunk_idx' = 0
    /\ doc_log' = <<>>
    /\ ppc' = "docs"
    /\ UNCHANGED <<env, items, collection, chunks_jsonl, ret,
                   ingestVars, keyVars, readVars, chunkVars, cleanVars, splitVars>>

\* `if not text: continue`
SkipDoc ==
    /\ ppc = "docs" /\ dpos <= Len(items)
    /\ items[dpos].text = <<>>
    /\ doc_log' = Append(doc_log, [doc_index |-> dpos - 1, skipped |-> TRUE,
                                   sentences |-> <<>>, chunks |-> <<>>])
    /\ dpos' = dpos + 1
    /\ UNCHANGED <<env, items, collection, chunks_jsonl, next_id_int, ids, documents,
                   metadatas, chunk_idx, pruns, ret, ppc,
                   ingestVars, keyVars, readVars, chunkVars, cleanVars, splitVars>>

\* The text is split into sentences and the windower is called with them
BeginDoc ==
    /\ ppc = "docs" /\ dpos <= Len(items)
    /\ items[dpos].text # <<>>
    /\ sentences' = _split_into_sentences(items[dpos].text)
    /\ target_tokens' = TARGET_TOKENS
    /\ max_tokens' = MAX_TOKENS
    /\ overlap_tokens' = OVERLAP_TOKENS
    /\ chunks' = <<>> /\ current' = <<>> /\ current_tok' = 0 /\ parts' = <<>>
    /\ carries' = <<>>
    /\ idx' = 1 /\ words' = <<>> /\ wi' = 0 /\ pc' = "loop"
    /\ chunk_idx' = 0
    /\ ppc' = "chunking"
    /\ UNCHANGED <<env, items, collection, chunks_jsonl, next_id_int, ids, documents,
                   metadatas, dpos, doc_log, pruns, ret,
                   ingestVars, keyVars, readVars, cleanVars, splitVars>>

\* One iteration of `for chunk_idx, chunk_text in enumerate(chunks)`
RecordChunk ==
    /\ ppc = "chunking" /\ pc = "done" /\ chunk_idx < Len(chunks)
    /\ IF chunks[chunk_idx + 1] = <<>>
       THEN UNCHANGED <<next_id_int, ids, documents, metadatas>>
       ELSE /\ ids' = Append(ids, str_int(next_id_int))
            /\ next_id_int' = next_id_int + 1
            /\ documents' = Append(documents, chunks[chunk_idx + 1])
            /\ metadatas' = Append(metadatas,
                                   chunk_metadata(items[dpos].path, dpos - 1, chunk_idx,
                                                  chunks[chunk_idx + 1]))
    /\ chunk_idx' = chunk_idx + 1
    /\ UNCHANGED <<env, items, collection, chunks_jsonl, dpos, doc_log, pruns, ret, ppc,
                   ingestVars, keyVars, readVars, chunkVars, cleanVars, splitVars>>

\* The chunks of the document are recorded: on to the next document
EndDoc ==
    /\ ppc = "chunking" /\ pc = "done" /\ chunk_idx >= Len(chunks)
    /\ doc_log' = Append(doc_log, [doc_index |-> dpos - 1, skipped |-> FALSE,
                                   sentences |-> sentences, chunks |-> chunks])
    /\ dpos' = dpos + 1
    /\ ppc' = "docs"
    /\ UNCHANGED <<env, items, collection, chunks_jsonl, next_id_int, ids, documents,
                   metadatas, chunk_idx, pruns, ret,
                   ingestVars, keyVars, readVars, chunkVars, cleanVars, splitVars>>

\* After the documents: chunks.jsonl is written, the chunks are upserted (or,
\* without any chunk, the sentinel is added) and chunk_data returns
Persist ==
    /\ ppc = "docs" /\ dpos > Len(items)
    /\ chunks_jsonl' =
          [k \in 1..Len(ids) |->
              [id |-> ids[k], source |-> metadatas[k].source,
               doc_index |-> metadatas[k].doc_index,
               chunk_index |-> metadatas[k].chunk_index, text |-> documents[k],
               tokens |-> metadatas[k].tokens]]
    /\ IF documents = <<>>
       THEN /\ collection' = collection_add_sentinel(collection)
            /\ ret' = FALSE
       ELSE /\ collection' = collection_upsert(collection, ids, documents, metadatas)
            /\ ret' = TRUE
    /\ ppc' = "done"
    /\ UNCHANGED <<env, items, next_id_int, ids, documents, metadatas, dpos, chunk_idx,
                   doc_log, pruns, ingestVars, keyVars, readVars, chunkVars, cleanVars, splitVars>>

NextPipe ==
    \/ FailEarly \/ BeginRun \/ SkipDoc \/ BeginDoc
    \/ NextChunk
    \/ RecordChunk \/ EndDoc \/ Persist

SpecPipe == InitPipe /\ [][NextPipe]_vars

-----------------------------------------------------------------------------
(* full_rag.py: load_source_data cleans the text of a document             *)

MaxPieces == 3

\* Pieces of extracted text: word fragments, hyphens at a line break, and
\* what else may stand around them
WordPieces  == {<<"e", "x", "a", "m">>, <<"p", "l", "e">>}
BreakPieces == {<<"-", "\n">>, <<"-", " ", "\n", " ">>, <<"-", "\r", "\n">>}
PiecePool   ==
    WordPieces \cup BreakPieces
        \cup {<<" ">>, <<"\n">>, <<"-">>, <<"U+00AD">>, <<"a", ".", "b", "/">>}

\* "".join(pieces)
RECURSIVE concat(_)
concat(pieces) == IF pieces = <<>> THEN <<>> ELSE Head(pieces) \o concat(Tail(pieces))

InitClean ==
    /\ extracted \in UNION {[1..n -> PiecePool] : n \in 0..MaxPieces}
    /\ keep_punct \in BOOLEAN
    /\ pre_clean = <<>>
    /\ cpc = "raw"
    /\ IngestIdle /\ KeyIdle /\ ReadIdle /\ ChunkIdle /\ PipeIdle /\ SplitIdle

\* pre_clean = _clean_extracted_text(text, keep_punctuation=...)
Clean ==
    /\ cpc = "raw"
    /\ pre_clean' = _clean_extracted_text(concat(extracted), keep_punct)
    /\ cpc' = "clean"
    /\ UNCHANGED <<extracted, keep_punct, ingestVars, keyVars, readVars, chunkVars, pipeVars, splitVars>>

SpecClean == InitClean /\ [][Clean]_vars

-----------------------------------------------------------------------------
(* full_rag.py: chunk_data splits the text of a document into sentences    *)

\* Pieces of a text around a section header: header words, a colon, a period,
\* spaces, a capitalised word and a word in lower case
HeaderPieces ==
    {<<"A", "b", "s", "t", "r", "a", "c", "t">>, <<"R", "e", "s", "u", "l", "t", "s">>,
     <<":">>, <<".">>, <<" ">>, <<"W", "e">>, <<"i", "t">>}

InitSplit ==
    /\ doc_pieces \in SeqsUpTo(HeaderPieces, MaxPieces)
    /\ doc_sentences = <<>>
    /\ spc = "text"
    /\ IngestIdle /\ KeyIdle /\ ReadIdle /\ ChunkIdle /\ PipeIdle /\ CleanIdle

\* sentences = _split_into_sentences(text)
Split ==
    /\ spc = "text"
    /\ doc_sentences' = _split_into_sentences(concat(doc_pieces))
    /\ spc' = "split"
    /\ UNCHANGED <<doc_pieces, ingestVars, keyVars, readVars, chunkVars, pipeVars, cleanVars>>

SpecSplit == InitSplit /\ [][Split]_vars

-----------------------------------------------------------------------------
(* The whole model: one of the subsystems runs                             *)

Init == InitIngest \/ InitKey \/ InitRead \/ InitChunk \/ InitPipe \/ InitClean \/ InitSplit

Next == NextIngest \/ DeriveKeys \/ NextRead \/ NextPipe \/ Clean \/ Split

Spec == Init /\ [][Next]_vars

-----------------------------------------------------------------------------
(* Properties                                                              *)

IsPrefix(a, b) == Len(a) <= Len(b) /\ SubSeq(b, 1, Len(a)) = a

Suffix(l, n) == SubSeq(l, Len(l) - n + 1, Len(l))

\* The elements of s at the positions in keep, in their order
RECURSIVE SelectIdx(_, _)
SelectIdx(s, keep) ==
    IF s = <<>> THEN <<>>
    ELSE (IF 1 \in keep THEN <<Head(s)>> ELSE <<>>)
         \o SelectIdx(Tail(s), {i - 1 : i \in keep \ {1}})

\* The store was empty (or absent) before the first run
StartedEmpty == Len(runs) >= 1 /\ runs[1].before.content = <<>>

\* C1: two runs of write_ndjson with the same items on an initially empty (or
\* absent) store: the first appends every distinct item once, the second
\* returns 0 and leaves the store as it was.
C1_Idempotent ==
    (Len(runs) >= 2 /\ StartedEmpty) =>
        /\ runs[1].ret = Cardinality({_item_key(feed[i]) : i \in 1..Len(feed)})
        /\ runs[2].ret = 0
        /\ runs[2].after = runs[2].before

\* C6: the item {title: "A", link: "http://x", pubDate: None, description: None}
\* ingested twice into an empty store: the first run returns 1 and appends one
\* line, the second returns 0 and leaves the store unchanged.
C6_ScenarioTwice ==
    (feed = <<ItemAx>> /\ Len(runs) >= 2 /\ StartedEmpty) =>
        /\ runs[1].ret = 1
        /\ Len(file_lines(runs[1].after.content)) = 1
        /\ runs[2].ret = 0
        /\ runs[2].after = runs[2].before

C6_Witness ==
    feed = <<ItemAx>> /\ Len(runs) >= 2 /\ StartedEmpty /\ ~runs[1].before.exists

Trimmed(v) == IF Falsy(v) THEN <<>> ELSE strip(v.str)

Triple(item) == <<Trimmed(item.title), Trimmed(item.pubDate), Trimmed(item.link)>>

HasPipe(s) == \E i \in 1..Len(s) : s[i] = "|"

\* No trimmed field of the item holds the character of the separator
PipeFree(item) == \A i \in 1..3 : ~HasPipe(Triple(item)[i])

\* Which of title, pubDate and link are non-empty
Present(item) == {i \in 1..3 : Triple(item)[i] # <<>>}

\* C7 as stated: two items whose trimmed (title, pubDate, link) differ get
\* different keys.
C7_KeysUnique ==
    (kpc = "derived" /\ Triple(itemA) # Triple(itemB)) => keyA # keyB

\* C7 as amended: two items whose trimmed (title, pubDate, link) differ get
\* different keys when the same ones of the three fields are non-empty in both
\* and no field holds a "|".
C7_KeysUniqueSameFields ==
    (/\ kpc = "derived"
     /\ Triple(itemA) # Triple(itemB)
     /\ Present(itemA) = Present(itemB)
     /\ PipeFree(itemA) /\ PipeFree(itemB)) => keyA # keyB

C7_Witness ==
    /\ kpc = "derived"
    /\ Triple(itemA) # Triple(itemB)
    /\ Present(itemA) = Present(itemB) /\ Present(itemA) # {}
    /\ PipeFree(itemA) /\ PipeFree(itemB)
    /\ itemA.title = itemB.title

SameTriple(a, b) == a.title = b.title /\ a.pubDate = b.pubDate /\ a.link = b.link

\* C8 as stated: two items that agree on title, pubDate and link have the same
\* key, whatever their descriptions.
C8_DescriptionIgnored ==
    (kpc = "derived" /\ SameTriple(itemA, itemB)) => keyA = keyB

\* C8 as amended: two items that agree on title, pubDate and link, at least
\* one of which is non-empty after trimming, have the same key, whatever
\* their descriptions.
C8_DescriptionIgnoredWhenStructural ==
    (kpc = "derived" /\ SameTriple(itemA, itemB) /\ Present(itemA) # {}) => keyA = keyB

C8_Witness ==
    /\ kpc = "derived" /\ SameTriple(itemA, itemB) /\ Present(itemA) # {}
    /\ itemA.description # itemB.description

\* C9: the key of an item with a non-empty title and link does not depend on
\* the order in which its fields are stored: read back from a line holding
\* the fields in any order, the item has the key it had.
C9_KeyStable ==
    (kpc = "derived" /\ {1, 3} \subseteq Present(itemA)) => keyStored = keyA

C9_Witness ==
    /\ kpc = "derived" /\ {1, 3} \subseteq Present(itemA)
    /\ order # CodeOrder /\ itemA.pubDate # None

\* A piece of the sentence s: some of its words in a row, joined by spaces
IsPieceOf(p, s) ==
    LET ws == split(s) IN
    \E a \in 1..Len(ws), b \in 1..Len(ws) : a <= b /\ p = join(<<" ">>, SubSeq(ws, a, b))

\* Chunk k is one piece of one sentence that alone exceeds max_tokens
FromOversized(k) ==
    /\ Len(parts[k]) = 1
    /\ \E j \in 1..Len(sentences) :
          /\ _estimate_tokens(sentences[j]) > max_tokens
          /\ IsPieceOf(parts[k][1], sentences[j])

\* C2: every emitted chunk's estimate is at most max_tokens, unless the chunk is
\* (a piece of) one sentence whose own estimate exceeds max_tokens.
C2_BudgetRespect ==
    max_tokens >= 1 =>
        \A k \in 1..Len(chunks) :
            _estimate_tokens(chunks[k]) <= max_tokens \/ FromOversized(k)

AllBelowMax == \A j \in 1..Len(sentences) : _estimate_tokens(sentences[j]) < max_tokens

\* Chunks k, k+1, ... read as: a repetition of the tail of the chunk before,
\* then the next input sentences after the first n, up to the last one
RECURSIVE ReadsInOrder(_, _)
ReadsInOrder(k, n) ==
    IF k > Len(parts) THEN n = Len(sentences)
    ELSE LET l    == parts[k]
             prev == IF k = 1 THEN <<>> ELSE parts[k - 1]
         IN  \E c \in 0..Min(Len(l), Len(prev)) :
                /\ SubSeq(l, 1, c) = Suffix(prev, c)
                /\ n + Len(l) - c <= Len(sentences)
                /\ SubSeq(l, c + 1, Len(l)) = SubSeq(sentences, n + 1, n + Len(l) - c)
                /\ ReadsInOrder(k + 1, n + Len(l) - c)

\* C3: with every sentence below max_tokens, each input sentence is in some
\* chunk, and the chunks, their overlap repetitions removed, read as the input
\* sentences in their order, none missing.
C3_Coverage ==
    (pc = "done" /\ AllBelowMax) =>
        /\ \A k \in 1..Len(chunks) : chunks[k] = chunk_text(parts[k])
        /\ \A j \in 1..Len(sentences) :
              \E k \in 1..Len(parts) : \E m \in 1..Len(parts[k]) : parts[k][m] = sentences[j]
        /\ ReadsInOrder(1, 0)

C3_Witness ==
    /\ pc = "done" /\ AllBelowMax
    /\ Len(sentences) >= 3 /\ Len(chunks) >= 2
    /\ \E k \in 2..Len(parts) : Len(parts[k]) >= 3

\* C4: when more than one chunk is emitted and overlap_tokens > 0, every chunk
\* after the first begins with one or more sentences or pieces that end the
\* chunk before it.
C4_OverlapNonEmpty ==
    (Len(chunks) > 1 /\ overlap_tokens > 0) =>
        \A k \in 2..Len(chunks) :
            \E c \in 1..Min(Len(parts[k]), Len(parts[k - 1])) :
                /\ SubSeq(parts[k], 1, c) = Suffix(parts[k - 1], c)
                /\ IsPrefix(chunk_text(SubSeq(parts[k], 1, c)), chunks[k])

C4_Witness ==
    /\ pc = "done" /\ overlap_tokens > 0 /\ Len(chunks) >= 3
    /\ \E k \in 2..Len(chunks) : Len(parts[k]) > 1

\* C5: sentences ["Intro.", "Second sentence here.", "Third."] with
\* target_tokens=1, max_tokens=100, overlap_tokens=0 give exactly three chunks,
\* one sentence each, in input order.
C5_ScenarioThreeChunks ==
    (/\ pc = "done"
     /\ sentences = <<Intro, Second, Third>>
     /\ target_tokens = 1 /\ max_tokens = 100 /\ overlap_tokens = 0)
    => chunks = <<Intro, Second, Third>>

\* The positions of the feed whose record is the first of its key in the feed
\* and whose key is not among keys
FirstOfNewKey(keys) ==
    {i \in 1..Len(feed) :
        /\ _item_key(feed[i]) \notin keys
        /\ \A j \in 1..(i - 1) : _item_key(feed[j]) # _item_key(feed[i])}

\* C11: in one run the records marked for append are, in input order, the
\* records that are the first of their key in the input and whose key is not in
\* the set loaded from the store; they are what the run appends.
C11_FirstOfEachKey ==
    \A k \in 1..Len(runs) :
        /\ runs[k].to_append = SelectIdx(feed, FirstOfNewKey(runs[k].loaded))
        /\ runs[k].after.content =
              runs[k].before.content \o written_text(runs[k].to_append)

\* Two different records of one key in the feed: one is appended by the first
\* run, none by the second, whose loaded set holds the key
C11_Witness ==
    /\ Len(feed) = 2 /\ feed[1] # feed[2] /\ _item_key(feed[1]) = _item_key(feed[2])
    /\ Len(runs) >= 2
    /\ runs[1].loaded = {} /\ runs[1].ret = 1
    /\ _item_key(feed[1]) \in runs[2].loaded /\ runs[2].ret = 0


\* C12: after a run of write_ndjson the store file exists, with its parent
\* directory, also when the run appends nothing to a path that had no file; a
\* file that exists before a run exists after it.
C12_StoreCreated ==
    \A k \in 1..Len(runs) :
        /\ runs[k].after.dir
        /\ runs[k].after.exists

\* C13: write_ndjson returns the number of records it appended, the store has
\* that many lines more than before, and a return of 0 leaves the content of
\* the store as it was.
C13_ReturnCountsLines ==
    \A k \in 1..Len(runs) :
        /\ runs[k].ret = Len(runs[k].to_append)
        /\ Len(file_lines(runs[k].after.content)) =
              Len(file_lines(runs[k].before.content)) + runs[k].ret
        /\ runs[k].ret = 0 => runs[k].after.content = runs[k].before.content

\* title, pubDate and link are all empty or absent
AllEmpty(item) == Falsy(item.title) /\ Falsy(item.pubDate) /\ Falsy(item.link)

\* C14: an item whose title, pubDate and link are all empty or absent has a
\* content-fallback key (json:: and the serialization of the record), and from
\* the second run on, the store holding it, it is not appended again.
C14_FallbackDeduplicated ==
    \A i \in 1..Len(feed) :
        AllEmpty(feed[i]) =>
            /\ _item_key(feed[i]) = JsonPrefix \o dumps_sorted(feed[i])
            /\ \A k \in 2..Len(runs) :
                  \A n \in 1..Len(runs[k].to_append) : runs[k].to_append[n] # feed[i]

\* title, pubDate and link are each a string or a value that counts as absent
FieldsTyped(item) ==
    \A v \in {item.title, item.pubDate, item.link} : v.kind = "str" \/ Falsy(v)

FieldText(v) == IF Falsy(v) THEN <<>> ELSE strip(v.str)

\* No field of the item holds a line break
OneLine(item) ==
    \A v \in {item.title, item.pubDate, item.link} :
        \A i \in 1..Len(v.str) : v.str[i] # "\n"

\* C16: the file holds the line write_ndjson wrote for one item (its fields on
\* one line, none with a " | " inside, not all absent): the reader gives one
\* record, whose title, pubDate and link are those of the item.
C16_RoundTrip ==
    (/\ rpc = "done"
     /\ Len(written) = 1
     /\ contents = split_on(written_text(written), <<"\n">>)
     /\ PipeFree(written[1]) /\ OneLine(written[1]) /\ ~AllEmpty(written[1])) =>
        /\ Len(records) = 1
        /\ records[1].title.str = FieldText(written[1].title)
        /\ records[1].pubDate.str = FieldText(written[1].pubDate)
        /\ records[1].link.str = FieldText(written[1].link)

\* The words of the sentences sents[j], sents[j + 1], ..., and two per sentence
RECURSIVE WordsFrom(_, _)
WordsFrom(sents, j) ==
    IF j > Len(sents) THEN 0 ELSE Len(split(sents[j])) + 2 + WordsFrom(sents, j + 1)

\* What the loops of the windower have left to do: the words of the sentence
\* being split that remain, and the sentences not yet read with their words
Variant(sents, j, ws, i, at) ==
    IF at = "done" THEN 0
    ELSE IF at = "split" THEN 2 + Max(0, Len(ws) - i) + WordsFrom(sents, j + 1)
    ELSE 1 + WordsFrom(sents, j)

\* C17: the windower terminates for every integer configuration: every step
\* lowers a natural number, which is 0 when the windower has returned, and the
\* word loop of an oversized sentence advances by 1 or more.
C17_Terminates ==
    [][/\ Variant(sentences, idx, words, wi, pc) \in Nat
       /\ Variant(sentences', idx', words', wi', pc') \in Nat
       /\ Variant(sentences', idx', words', wi', pc') < Variant(sentences, idx, words, wi, pc)
       /\ (pc = "split" /\ pc' = "split") => wi' > wi]_vars

\* The windower has returned after splitting a sentence under a budget of zero
\* or less
C17_Witness ==
    /\ pc = "done" /\ max_tokens <= 0
    /\ Len(sentences) >= 2 /\ Len(chunks) >= 2

\* The text of the document at doc_index d (0-based)
TextOf(d) == items[d + 1].text

\* C18: a document whose text is empty is skipped, a text of whitespace alone
\* has no sentences, the windower returns no chunks for no sentences, and no
\* chunk is recorded for a document whose text is empty or blank.
C18_EmptyInputNoChunks ==
    /\ \A n \in 1..Len(doc_log) :
          /\ TextOf(doc_log[n].doc_index) = <<>> => doc_log[n].skipped
          /\ strip(TextOf(doc_log[n].doc_index)) = <<>> => doc_log[n].sentences = <<>>
          /\ doc_log[n].sentences = <<>> => doc_log[n].chunks = <<>>
    /\ (pc = "done" /\ sentences = <<>>) => chunks = <<>>
    /\ \A k \in 1..Len(metadatas) : strip(TextOf(metadatas[k].doc_index)) # <<>>

\* A run over a document without text and a document of one space has ended
C18_Witness ==
    /\ ppc = "done" /\ pruns = 1 /\ env = "ok"
    /\ Len(items) = 2 /\ TextOf(0) = NoText /\ TextOf(1) = BlankText
    /\ Len(doc_log) = 2 /\ doc_log[1].skipped /\ ~doc_log[2].skipped
    /\ chunks_jsonl = <<>>

\* The positions of metadatas that belong to the document at doc_index d
RecordedFor(d) ==
    SelectSeq([k \in 1..Len(metadatas) |-> k], LAMBDA k : metadatas[k].doc_index = d)

\* The input sentences from which the last element of chunk k comes, whole or
\* as a piece
SourceOf(k) ==
    {j \in 1..Len(sentences) :
        LET p == parts[k][Len(parts[k])] IN p = sentences[j] \/ IsPieceOf(p, sentences[j])}

\* C19: the chunks of a document come in the order of the sentences they end
\* with, and the chunks recorded for a document are its chunks in that order,
\* with chunk_index 0, 1, 2, ... without gaps.
C19_ChunkIndexIsPosition ==
    /\ pc = "done" =>
          \A k \in 1..Len(chunks) : \A m \in k..Len(chunks) :
              \E j \in SourceOf(k) : \E n \in SourceOf(m) : j <= n
    /\ \A n \in 1..Len(doc_log) :
          LET at == RecordedFor(doc_log[n].doc_index) IN
          /\ Len(at) = Len(doc_log[n].chunks)
          /\ \A m \in 1..Len(at) :
                /\ metadatas[at[m]].chunk_index = m - 1
                /\ documents[at[m]] = doc_log[n].chunks[m]
                /\ m > 1 => at[m] = at[m - 1] + 1

\* A run has recorded a document of three chunks or more and a second document
C19_Witness ==
    /\ ppc = "done" /\ ret
    /\ \E k \in 1..Len(metadatas) : metadatas[k].chunk_index >= 2
    /\ \E k \in 1..Len(metadatas) : metadatas[k].doc_index = 1
    /\ Len(doc_log) = 2

\* A piece that begins with whitespace, or with a character the cleaner strips
StartsBlank(p) == Head(p) \in White \cup ZeroWidth

\* The pieces without the hyphens at a line break: all of them but those that
\* a blank piece follows, whose whitespace belongs to the break
Unwrapped(pieces) ==
    LET kept == SelectSeq([k \in 1..Len(pieces) |-> k],
                          LAMBDA k : ~(/\ pieces[k] \in BreakPieces
                                       /\ k = Len(pieces) \/ ~StartsBlank(pieces[k + 1])))
    IN  [k \in 1..Len(kept) |-> pieces[kept[k]]]

\* C20: _clean_extracted_text deletes every hyphen that a line break follows
\* (with optional whitespace around the break) together with the break, and
\* joins the fragments with no space: "exam-" + line break + "ple" becomes
\* "example"; a text of word fragments and such hyphens becomes the fragments
\* joined; and any text is cleaned as the text without such hyphens and breaks.
C20_HyphenationRepaired ==
    cpc = "clean" =>
        /\ extracted = <<<<"e", "x", "a", "m">>, <<"-", "\n">>, <<"p", "l", "e">>>>
              => pre_clean = <<"e", "x", "a", "m", "p", "l", "e">>
        /\ (\A k \in 1..Len(extracted) : extracted[k] \in WordPieces \cup BreakPieces)
              => pre_clean = concat(SelectSeq(extracted, LAMBDA p : p \in WordPieces))
        /\ pre_clean = _clean_extracted_text(concat(Unwrapped(extracted)), keep_punct)

C20_Witness ==
    /\ cpc = "clean"
    /\ extracted = <<<<"e", "x", "a", "m">>, <<"-", " ", "\n", " ">>, <<"p", "l", "e">>>>
    /\ pre_clean = <<"e", "x", "a", "m", "p", "l", "e">>

\* C21: every piece into which the windower splits a sentence whose estimate
\* is max_tokens or more has itself an estimate of at most max_tokens.
C21_PieceWithinCeiling ==
    (pc = "split" /\ wi < Len(words) /\ max_tokens >= 1) =>
        _estimate_tokens(join(<<" ">>, SubSeq(words, wi + 1,
                                              Min(wi + approx_words_per_chunk, Len(words)))))
            <= max_tokens

\* C22: after every flush of flush_current the new buffer is a suffix of the
\* flushed list, in its order; its padded estimate reaches overlap_tokens unless
\* it is the whole flushed list; and it is minimal: without its first sentence
\* its padded estimate is below overlap_tokens.
C22_OverlapCarry ==
    \A k \in 1..Len(carries) :
        /\ Len(carries[k]) <= Len(parts[k])
        /\ carries[k] = Suffix(parts[k], Len(carries[k]))
        /\ padded_sum(carries[k]) >= overlap_tokens \/ carries[k] = parts[k]
        /\ carries[k] # <<>> => padded_sum(Tail(carries[k])) < overlap_tokens

\* The running counter of st is the padded estimate of its buffer
Consistent(st) == st.current_tok = padded_sum(st.current)

\* The sentence or the piece that the next step of the windower takes
NextTaken ==
    IF pc = "loop" /\ idx <= Len(sentences) THEN {sentences[idx]}
    ELSE IF pc = "split" /\ wi < Len(words)
    THEN {join(<<" ">>, SubSeq(words, wi + 1, Min(wi + approx_words_per_chunk, Len(words))))}
    ELSE {}

\* C23: between the steps of the windower, and inside a step after each append
\* and after each flush, current_tok is the sum of _estimate_tokens(s) + 1
\* over the sentences and pieces in the buffer.
C23_RunningEstimate ==
    /\ Consistent(WinState)
    /\ Consistent(flush_current(WinState))
    /\ \A s \in NextTaken :
          /\ Consistent(append_piece(WinState, s))
          /\ Consistent(flush_current(append_piece(WinState, s)))
          /\ Consistent(append_piece(flush_current(WinState), s))
          /\ Consistent(flush_current(append_piece(flush_current(WinState), s)))

C23_Witness ==
    /\ pc = "split" /\ wi > 0
    /\ Len(carries) >= 2 /\ Len(current) >= 2
    /\ current_tok = padded_sum(current) /\ current_tok > 0

\* The text after position e of text, a header word's last: what follows the
\* optional colon, the optional period and the whitespace around them
Following(text, e) ==
    LET a == skip_space(text, e + 1)
        b == IF a < Len(text) /\ text[a + 1] = ":" THEN skip_space(text, a + 2) ELSE a
        c == IF b < Len(text) /\ text[b + 1] = "." THEN skip_space(text, b + 2) ELSE b
    IN  SubSeq(text, c + 1, Len(text))

\* A sentence of sents ends with the word w and one period, and the sentence
\* after it begins as `next` does
EndsSentence(sents, w, next) ==
    \E k \in 1..Len(sents) :
        /\ Len(sents[k]) > Len(w)
        /\ Suffix(sents[k], Len(w) + 1) = w \o <<".">>
        /\ next # <<>> => (k < Len(sents) /\ Head(sents[k + 1]) = Head(next))

\* C24: for every occurrence of a header word as a whole word, optionally
\* followed by a colon, _split_into_sentences ends a sentence right after the
\* word, with one period, and the text that follows begins the next sentence,
\* whatever its first character.
C24_HeaderEndsSentence ==
    spc = "split" =>
        \A n \in 1..Len(section_words) :
            \A i \in header_at(concat(doc_pieces), section_words[n]) :
                EndsSentence(doc_sentences, section_words[n],
                             Following(concat(doc_pieces), i + Len(section_words[n]) - 1))

\* The keys of the records of list
KeysOf(list) == {_item_key(list[i]) : i \in 1..Len(list)}

\* C25: within one run of write_ndjson the identity key set only grows: every
\* key once in it stays in it, and from the load to the end of the run the set
\* is the loaded keys plus the keys of exactly the records marked for append.
C25_KeysOnlyGrow ==
    /\ [](/\ \A c \in Callers :
                wpc[c] = "filter" =>
                    existing_keys[c] = before[c].keys \cup KeysOf(to_append[c])
          /\ \A k \in 1..Len(runs) :
                runs[k].keys = runs[k].loaded \cup KeysOf(runs[k].to_append))
    /\ [][\A c \in Callers :
             (wpc[c] = "filter" /\ wpc'[c] = "filter")
                 => existing_keys[c] \subseteq existing_keys'[c]]_vars

\* A run that loaded keys from the store and marked two records for append
C25_Witness ==
    \E k \in 1..Len(runs) :
        /\ runs[k].loaded # {}
        /\ Len(runs[k].to_append) = 2
        /\ Cardinality(runs[k].keys) = Cardinality(runs[k].loaded) + 2

\* C26: every chunk after the first holds a sentence or a piece beyond what the
\* flush before it carried over, so no chunk is the carried overlap alone, and
\* no chunk text is emitted twice in a row.
C26_ChunkCarriesNewContent ==
    \A k \in 2..Len(chunks) :
        /\ k - 1 <= Len(carries) => parts[k] # carries[k - 1]
        /\ chunks[k] # chunks[k - 1]

\* C27: of two runs of write_ndjson on one store path that are handed the same
\* record, at most one appends it, also when their steps interleave.
C27_AppendedOnceUnderRace ==
    \A k \in 1..Len(runs) : \A m \in 1..Len(runs) :
        k # m => \A i \in 1..Len(runs[k].to_append) : \A j \in 1..Len(runs[m].to_append) :
                    runs[k].to_append[i] = ItemAx => runs[m].to_append[j] # ItemAx

\* C28: a second run of chunk_data over the same documents leaves the
\* collection as the first run left it: each chunk is upserted under the id it
\* has, so no record is added and the size does not grow.
C28_RerunIdempotent ==
    [][(pruns = 2 /\ ppc = "docs" /\ ppc' = "done")
          => /\ collection' = collection
             /\ Cardinality(collection') = Cardinality(collection)]_vars

====
